---- MODULE Spec2Model ----
(***************************************************************************)
(* Model of SNP_Exam_Generator.py: the exam generation run                 *)
(* (generate_exam_html), the document and answer key it renders            *)
(* (create_html_content) and the grading script embedded in the document   *)
(* (checkAnswers).                                                         *)
(*                                                                         *)
(* A spreadsheet cell is a record [t, n, s]: t is "nan" (empty cell,       *)
(* None/NaN in pandas), "num" (numeric cell, value n) or "str" (text cell, *)
(* value s).  A text is a sequence of one-character strings.               *)
(*                                                                         *)
(* Numbers are integers (Excel floats and the int() truncation of line 53  *)
(* are not modelled), whitespace is the blank, and of the required columns *)
(* the five that are only printed (Question Text, Exam #, Question #,      *)
(* Difficulty Level, Domain) are left out.                                 *)
(***************************************************************************)
EXTENDS Integers, Sequences, FiniteSets, TLC

VARIABLES
    store,        \* the Excel file: [exists, columns, rows]
    files,        \* generation numbers N with shuffle_exam_test_N.html on disk
    run,          \* the last call of generate_exam_html and its outcome
    history,      \* new_exam_number of every successful run, oldest first
    questions,    \* the DataFrame handed to create_html_content
    document,     \* the HTML document last rendered / open in the browser
    checked,      \* browser: position -> indices of the checked inputs
    classList,    \* browser: position -> status classes of the question div
    correctLabel, \* browser: position -> indices of options marked correct-answer
    scoreText,    \* browser: text of the .score element, [score, outOf]
    graded        \* browser: the selections read by the last checkAnswers, and
                  \* whether that trigger regraded a page graded with other ones

vars == <<store, files, run, history, questions, document,
          checked, classList, correctLabel, scoreText, graded>>

genVars == <<store, files, run, history>>
pageVars == <<checked, classList, correctLabel, scoreText, graded>>

----------------------------------------------------------------------------
(* Bounds of the model *)

MaxBank == 2          \* rows in the question bank
MaxSampleSize == 3    \* largest requested --sample-size
MaxRuns == 2          \* calls of generate_exam_html in one behaviour
MaxLen == 4           \* length of a correct-answer text in the key builder
MaxQuestions == 2     \* questions in a document that is graded

----------------------------------------------------------------------------
(* Cells and texts *)

NaN == [t |-> "nan", n |-> 0, s |-> <<>>]
Num(k) == [t |-> "num", n |-> k, s |-> <<>>]
Str(x) == [t |-> "str", n |-> 0, s |-> x]

notna(c) == c.t # "nan"

SetMax(S) == CHOOSE m \in S : \A x \in S : x <= m

Min(a, b) == IF a < b THEN a ELSE b

Range(f) == {f[i] : i \in DOMAIN f}

Digits == <<"0", "1", "2", "3", "4", "5", "6", "7", "8", "9">>

IsDigit(c) == \E d \in DOMAIN Digits : Digits[d] = c

DigitValue(c) == (CHOOSE d \in DOMAIN Digits : Digits[d] = c) - 1

RECURSIVE ParseDigits(_, _)
ParseDigits(s, acc) ==
    IF s = <<>> THEN acc
    ELSE ParseDigits(Tail(s), 10 * acc + DigitValue(Head(s)))

\* pd.to_numeric(..., errors='coerce') on one cell: numbers stay, a text of
\* digits becomes its number, every other text and the empty cell is NaN.
to_numeric(c) ==
    IF c.t = "num" THEN c
    ELSE IF c.t = "str" /\ c.s # <<>> /\ \A i \in DOMAIN c.s : IsDigit(c.s[i])
         THEN Num(ParseDigits(c.s, 0))
         ELSE NaN

\* Series.fillna(0) on one cell
fillna0(c) == IF c.t = "nan" THEN Num(0) ELSE c

----------------------------------------------------------------------------
(* str.split('+') and str.strip() *)

RECURSIVE split(_)
split(s) ==
    IF s = <<>> THEN << <<>> >>
    ELSE LET rest == split(Tail(s))
         IN  IF Head(s) = "+"
             THEN << <<>> >> \o rest
             ELSE << <<Head(s)>> \o Head(rest) >> \o Tail(rest)

RECURSIVE lstrip(_)
lstrip(s) == IF s # <<>> /\ Head(s) = " " THEN lstrip(Tail(s)) ELSE s

RECURSIVE rstrip(_)
rstrip(s) ==
    IF s # <<>> /\ s[Len(s)] = " " THEN rstrip(SubSeq(s, 1, Len(s) - 1)) ELSE s

\* a strip that forgets the trailing blanks
stripMutant(s) == lstrip(s)

strip(s) == rstrip(lstrip(s))

----------------------------------------------------------------------------
(* html.escape, str.replace(' ', '_'), and the browser's reading of an    *)
(* attribute value (character references are decoded).                     *)

escapeChar(c) ==
    IF c = "&" THEN <<"&", "a", "m", "p", ";">>
    ELSE IF c = "<" THEN <<"&", "l", "t", ";">>
    ELSE <<c>>

RECURSIVE html_escape(_)
html_escape(s) ==
    IF s = <<>> THEN <<>> ELSE escapeChar(Head(s)) \o html_escape(Tail(s))

StartsWith(s, p) == Len(s) >= Len(p) /\ SubSeq(s, 1, Len(p)) = p

RECURSIVE attributeValue(_)
attributeValue(s) ==
    IF s = <<>> THEN <<>>
    ELSE IF StartsWith(s, <<"&", "a", "m", "p", ";">>)
         THEN <<"&">> \o attributeValue(SubSeq(s, 6, Len(s)))
    ELSE IF StartsWith(s, <<"&", "l", "t", ";">>)
         THEN <<"<">> \o attributeValue(SubSeq(s, 5, Len(s)))
    ELSE <<Head(s)>> \o attributeValue(Tail(s))

replace_space(s) == [i \in DOMAIN s |-> IF s[i] = " " THEN "_" ELSE s[i]]

----------------------------------------------------------------------------
(* create_html_content *)

CA == "Correct Answers & Selections"

\* str(row['Correct Answers & Selections']) of a text cell
str(c) == c.s

answers(c) == LET parts == split(str(c)) IN [k \in DOMAIN parts |-> strip(parts[k])]

\* the positions that get an entry in correct_answers_dict
KeyPositions(qs) == {i \in DOMAIN qs : notna(qs[i][CA])}

correct_answers_dict(qs) == [i \in KeyPositions(qs) |-> answers(qs[i][CA])]

input_type(row) ==
    LET selection_criteria ==
            IF notna(row["Selection Criteria"]) THEN row["Selection Criteria"].s ELSE <<>>
    IN  IF selection_criteria # <<>> THEN "checkbox" ELSE "radio"

\* one <input>/<label> pair per piece of row['Selections']
options(row) ==
    IF notna(row["Selections"])
    THEN LET parts == split(row["Selections"].s)
         IN  [k \in DOMAIN parts |->
                LET escaped_option == html_escape(strip(parts[k]))
                IN  [id |-> replace_space(escaped_option), value |-> escaped_option]]
    ELSE <<>>

\* enumerate(questions.iterrows(), start=1): one block per row, numbered from 1
question_html(qs) ==
    [i \in DOMAIN qs |->
        [data_question |-> i,
         input_type |-> input_type(qs[i]),
         options |-> options(qs[i])]]

\* row['Selections'].split('+') raises AttributeError on a numeric cell
RenderRaises(qs) == \E i \in DOMAIN qs : qs[i]["Selections"].t = "num"

create_html_content(qs, new_exam_number) ==
    [number |-> new_exam_number,
     correctAnswers |-> correct_answers_dict(qs),
     questions |-> question_html(qs),
     outOf |-> Len(qs)]

NoDocument == [number |-> 0, correctAnswers |-> <<>>, questions |-> <<>>, outOf |-> 0]

----------------------------------------------------------------------------
(* The embedded script: checkAnswers, and the inputs it reads *)

StatusClasses == {"correct", "incorrect", "missing"}

\* UTF-16 code units, the order Array.prototype.sort() uses
CharCode(c) ==
    CASE c = " " -> 32 [] c = "&" -> 38 [] c = "+" -> 43 [] c = "<" -> 60
      [] c = "A" -> 65 [] c = "B" -> 66 [] c = "C" -> 67 [] OTHER -> 95

RECURSIVE TextLess(_, _)
TextLess(a, b) ==
    IF b = <<>> THEN FALSE
    ELSE IF a = <<>> THEN TRUE
    ELSE IF Head(a) # Head(b) THEN CharCode(Head(a)) < CharCode(Head(b))
    ELSE TextLess(Tail(a), Tail(b))

RECURSIVE insert(_, _)
insert(x, sorted) ==
    IF sorted = <<>> THEN <<x>>
    ELSE IF TextLess(Head(sorted), x) THEN <<Head(sorted)>> \o insert(x, Tail(sorted))
    ELSE <<x>> \o sorted

RECURSIVE sort(_)
sort(a) == IF a = <<>> THEN <<>> ELSE insert(Head(a), sort(Tail(a)))

RECURSIVE JSONitems(_)
JSONitems(a) ==
    IF a = <<>> THEN <<>>
    ELSE <<"\"">> \o Head(a) \o <<"\"">>
         \o (IF Tail(a) = <<>> THEN <<>> ELSE <<",">>) \o JSONitems(Tail(a))

\* JSON.stringify of an array of strings
JSONstringify(a) == <<"[">> \o JSONitems(a) \o <<"]">>

RECURSIVE InOrder(_, _)
InOrder(S, f) ==
    IF f = <<>> THEN <<>>
    ELSE (IF Len(f) \in S THEN InOrder(S, SubSeq(f, 1, Len(f) - 1)) \o <<f[Len(f)]>>
          ELSE InOrder(S, SubSeq(f, 1, Len(f) - 1)))

\* Array.from(questionDiv.querySelectorAll('input:checked')).map(opt => opt.value.trim())
selectedOptions(block, chk) ==
    InOrder(chk, [j \in DOMAIN block.options |-> strip(attributeValue(block.options[j].value))])

isEqual(selected, correct) == JSONstringify(sort(selected)) = JSONstringify(sort(correct))

\* the class added to the question div of a position that is in correctAnswers
Status(block, chk, correct) ==
    IF Len(selectedOptions(block, chk)) = 0 THEN "missing"
    ELSE IF isEqual(selectedOptions(block, chk), correct) THEN "correct"
    ELSE "incorrect"

\* a trigger that leaves the old status classes in place
RemoveStatusMutant(classes) == classes

\* questionDiv.classList.remove('correct', 'incorrect', 'missing')
RemoveStatus(classes) == classes \ StatusClasses

\* querySelector(`label[for="q<key>_<correctAns with whitespace as _>"]`):
\* the first label of the question whose for attribute is that id
CorrectLabels(block, correct) ==
    {j \in DOMAIN block.options :
        /\ \E k \in DOMAIN correct :
              attributeValue(block.options[j].id) = replace_space(correct[k])
        /\ \A h \in 1..(j - 1) :
              attributeValue(block.options[h].id) # attributeValue(block.options[j].id)}

\* the denominator of the text rendered at line 172: len(questions)
OutOfMutant(doc) == Len(doc.questions)

\* Object.keys(correctAnswers).length
OutOf(doc) == Cardinality(DOMAIN doc.correctAnswers)

\* if (!correctAnswers[key]) continue
HasKey(doc, i) == i \in DOMAIN doc.correctAnswers

trimmed(correct) == [k \in DOMAIN correct |-> strip(correct[k])]

checkAnswers ==
    /\ document.questions # <<>>
    /\ classList' =
        [i \in DOMAIN document.questions |->
            IF HasKey(document, i)
            THEN RemoveStatus(classList[i])
                    \cup {Status(document.questions[i], checked[i],
                                 trimmed(document.correctAnswers[i]))}
            ELSE RemoveStatus(classList[i])]
    /\ correctLabel' =
        [i \in DOMAIN document.questions |->
            IF HasKey(document, i)
            THEN CorrectLabels(document.questions[i], trimmed(document.correctAnswers[i]))
            ELSE {}]
    /\ scoreText' =
        [score |-> Cardinality({i \in DOMAIN document.questions :
                        /\ HasKey(document, i)
                        /\ Status(document.questions[i], checked[i],
                                  trimmed(document.correctAnswers[i])) = "correct"}),
         outOf |-> OutOf(document)]
    /\ graded' = [triggered |-> TRUE,
                  regraded |-> graded.triggered /\ graded.checked # checked,
                  checked |-> checked]
    /\ UNCHANGED <<checked, questions, document, genVars>>

\* the user clicks input j of question i: a radio button checks itself and
\* unchecks the others of its name group, a checkbox toggles
Click(i, j) ==
    /\ i \in DOMAIN document.questions
    /\ j \in DOMAIN document.questions[i].options
    /\ IF document.questions[i].input_type = "radio"
       THEN /\ j \notin checked[i]
            /\ checked' = [checked EXCEPT ![i] = {j}]
       ELSE checked' = [checked EXCEPT ![i] =
                            IF j \in @ THEN @ \ {j} ELSE @ \cup {j}]
    /\ UNCHANGED <<classList, correctLabel, scoreText, graded, questions, document, genVars>>

----------------------------------------------------------------------------
(* generate_exam_html *)

RequiredColumns ==
    {"Occurrence", "Exam Number", CA, "Selections", "Selection Criteria"}

validate_excel_structure(sheet_data) ==
    LET columns == sheet_data.columns \cup RequiredColumns
    IN  [sheet_data EXCEPT
            !.columns = columns,
            !.rows = [i \in DOMAIN sheet_data.rows |->
                        [c \in columns |->
                            IF c \in sheet_data.columns THEN sheet_data.rows[i][c]
                            ELSE IF c = "Occurrence" THEN Num(0) ELSE NaN]]]

\* sheet_data['Exam Number'] = pd.to_numeric(sheet_data['Exam Number'], errors='coerce')
CoerceExamNumber(sheet_data) ==
    [sheet_data EXCEPT
        !.rows = [i \in DOMAIN sheet_data.rows |->
                    [sheet_data.rows[i] EXCEPT
                        !["Exam Number"] = to_numeric(sheet_data.rows[i]["Exam Number"])]]]

valid_exam_numbers(sheet_data) ==
    {sheet_data.rows[i]["Exam Number"].n :
        i \in {j \in DOMAIN sheet_data.rows : notna(sheet_data.rows[j]["Exam Number"])}}

max_exam_number(sheet_data) ==
    IF valid_exam_numbers(sheet_data) # {}
    THEN SetMax(valid_exam_numbers(sheet_data))
    ELSE 0

\* a run that reuses the maximum instead of passing it
new_exam_numberMutant(sheet_data) == max_exam_number(sheet_data)

new_exam_number(sheet_data) == max_exam_number(sheet_data) + 1

\* a run without the clamp of lines 57-58
EffectiveSampleSizeMutant(sample_size, bank) == sample_size

\* if len(sheet_data) < sample_size: sample_size = len(sheet_data)
EffectiveSampleSize(sample_size, bank) == IF bank < sample_size THEN bank ELSE sample_size

\* the outcomes of DataFrame.sample(k): k distinct row labels in any order
Samples(bank, k) ==
    {index \in [1..k -> 1..bank] : \A a, b \in 1..k : a # b => index[a] # index[b]}

\* lines 62-63: the two .loc assignments on the sampled rows
UpdateSampled(sheet_data, index, exam_number) ==
    [sheet_data EXCEPT
        !.rows = [i \in DOMAIN sheet_data.rows |->
                    IF i \in Range(index)
                    THEN [sheet_data.rows[i] EXCEPT
                            !["Occurrence"] = Num(fillna0(sheet_data.rows[i]["Occurrence"]).n + 1),
                            !["Exam Number"] = Num(exam_number)]
                    ELSE sheet_data.rows[i]]]

NoRun == [calls |-> 0, status |-> "none", sample_size |-> 0, index |-> <<>>,
          new_exam_number |-> 0,
          before |-> [exists |-> FALSE, columns |-> {}, rows |-> <<>>]]

\* what the call did: status is "ok" or the exception that left it
Outcome(status, sample_size, index, exam_number) ==
    [calls |-> run.calls + 1, status |-> status, sample_size |-> sample_size,
     index |-> index, new_exam_number |-> exam_number, before |-> store]

generate_exam_html(sample_size) ==
    /\ run.calls < MaxRuns
    /\ UNCHANGED pageVars
    /\ IF ~store.exists
       THEN /\ run' = Outcome("FileNotFoundError", sample_size, <<>>, 0)
            /\ UNCHANGED <<store, files, history, questions, document>>
       ELSE LET sheet_data == CoerceExamNumber(validate_excel_structure(store))
                number == new_exam_number(sheet_data)
                size == EffectiveSampleSize(sample_size, Len(sheet_data.rows))
            IN  IF Samples(Len(sheet_data.rows), size) = {}
                THEN \* DataFrame.sample raises ValueError: more rows asked than exist
                     /\ run' = Outcome("ValueError", sample_size, <<>>, number)
                     /\ UNCHANGED <<store, files, history, questions, document>>
                ELSE
                \E index \in Samples(Len(sheet_data.rows), size) :
                  LET sampled == [k \in 1..size |-> sheet_data.rows[index[k]]]
                  IN  /\ store' = UpdateSampled(sheet_data, index, number)
                      /\ questions' = sampled
                      /\ IF RenderRaises(sampled)
                         THEN /\ run' = Outcome("AttributeError", sample_size, index, number)
                              /\ UNCHANGED <<files, history, document>>
                         ELSE \* open(output_html_path, 'w') and write succeed or raise
                           \E htmlWritable \in BOOLEAN :
                              IF ~htmlWritable
                              THEN /\ run' = Outcome("OSError", sample_size, index, number)
                                   /\ UNCHANGED <<files, history, document>>
                              ELSE /\ run' = Outcome("ok", sample_size, index, number)
                                   /\ files' = files \cup {number}
                                   /\ history' = Append(history, number)
                                   /\ document' = create_html_content(sampled, number)

----------------------------------------------------------------------------
(* The question banks a behaviour may start from *)

Row(occurrence, exam_number, correct, selections, criteria) ==
    [c \in RequiredColumns |->
        CASE c = "Occurrence" -> occurrence
          [] c = "Exam Number" -> exam_number
          [] c = CA -> correct
          [] c = "Selections" -> selections
          [] OTHER -> criteria]

BankRows ==
    { Row(NaN,    Str(<<"A">>), NaN,                    Str(<<"A", "+", "B">>), NaN),
      Row(Num(1), Num(1),       Str(<<"A", "+", "B">>), Str(<<"A", "+", "B">>), Str(<<"x">>)),
      Row(Num(2), Str(<<"2">>), Str(<<"A">>),           Num(7),                 NaN) }

ColumnSets == {RequiredColumns, RequiredColumns \ {"Occurrence", "Exam Number"}}

Banks ==
    {[exists |-> TRUE, columns |-> columns,
      rows |-> [i \in DOMAIN rows |-> [c \in columns |-> rows[i][c]]]] :
        columns \in ColumnSets,
        rows \in UNION {[1..b -> BankRows] : b \in 0..MaxBank}}

\* the document as the browser first shows it: nothing checked, no marking,
\* the score text as rendered, checkAnswers not yet triggered
EmptyPage(doc) ==
    /\ checked = [i \in DOMAIN doc.questions |-> {}]
    /\ classList = [i \in DOMAIN doc.questions |-> {}]
    /\ correctLabel = [i \in DOMAIN doc.questions |-> {}]
    /\ scoreText = [score |-> 0, outOf |-> doc.outOf]
    /\ graded = [triggered |-> FALSE, regraded |-> FALSE, checked |-> <<>>]

Init ==
    /\ store \in Banks \cup {NoRun.before}
    /\ files = {}
    /\ run = NoRun
    /\ history = <<>>
    /\ questions = <<>>
    /\ document = NoDocument
    /\ EmptyPage(NoDocument)

Next == \E sample_size \in 0..MaxSampleSize : generate_exam_html(sample_size)

Spec == Init /\ [][Next]_vars

----------------------------------------------------------------------------
(* Claims about a generation run.  run.before is the store the run read.   *)

Sampled == Range(run.index)

RunFailed == run.status \notin {"none", "ok"}

\* the Occurrence a record had before the run, a missing one counting as 0
OccurrenceBefore(i) ==
    IF "Occurrence" \in run.before.columns /\ run.before.rows[i]["Occurrence"].t = "num"
    THEN run.before.rows[i]["Occurrence"].n
    ELSE 0

\* the numeric Exam Numbers of the whole bank before the run
NumericExamNumbersBefore ==
    IF "Exam Number" \in run.before.columns
    THEN {to_numeric(run.before.rows[i]["Exam Number"]).n :
            i \in {j \in DOMAIN run.before.rows :
                     notna(to_numeric(run.before.rows[j]["Exam Number"]))}}
    ELSE {}

\* C1: after a run has written the store back, every sampled record's
\* Occurrence is its pre-run Occurrence plus 1 (missing counts as 0) and its
\* Exam Number is the run's number, which is greater than every numeric Exam
\* Number of the bank before the run, and is 1 when there was none.
C1_SampledCountersUpdated ==
    run.status = "ok" =>
        /\ \A i \in Sampled :
            /\ store.rows[i]["Occurrence"] = Num(OccurrenceBefore(i) + 1)
            /\ store.rows[i]["Exam Number"] = Num(run.new_exam_number)
        /\ \A m \in NumericExamNumbersBefore : run.new_exam_number > m
        /\ NumericExamNumbersBefore = {} => run.new_exam_number = 1

C1_Witness ==
    /\ run.status = "ok"
    /\ Cardinality(Sampled) = 2
    /\ NumericExamNumbersBefore # {}
    /\ \E i \in Sampled : run.before.rows[i]["Occurrence"] = NaN
    /\ \E i \in Sampled : run.before.rows[i]["Occurrence"].t = "num"

\* C2: a run on a bank of b records asked for n samples never fails for
\* n > b; it samples min(n, b) pairwise distinct records of the bank and the
\* document has min(n, b) question blocks numbered 1..min(n, b), block k
\* rendered from the k-th sampled record.
C2_SampleSizeIsMin ==
    /\ run.status # "ValueError"
    /\ run.status \in {"ok", "AttributeError", "OSError"} =>
        /\ Len(run.index) = Min(run.sample_size, Len(run.before.rows))
        /\ Sampled \subseteq DOMAIN run.before.rows
        /\ Cardinality(Sampled) = Len(run.index)
    /\ run.status = "ok" =>
        /\ Len(document.questions) = Min(run.sample_size, Len(run.before.rows))
        /\ \A k \in DOMAIN document.questions :
            /\ document.questions[k].data_question = k
            /\ \A c \in {CA, "Selections", "Selection Criteria"} :
                  questions[k][c] = run.before.rows[run.index[k]][c]

C2_Witness ==
    /\ run.status = "ok"
    /\ run.sample_size > Len(run.before.rows)
    /\ Len(document.questions) = 2

\* C3: a run leaves every record it did not sample as it was in the store:
\* each field the store held for the record before the run has the same
\* value after it, a non-numeric Exam Number included.
C3_NonSampledUntouched ==
    run.status = "ok" =>
        \A i \in DOMAIN run.before.rows \ Sampled :
            \A c \in run.before.columns :
                \/ store.rows[i][c] = run.before.rows[i][c]
                \/ /\ notna(store.rows[i][c])      \* the text "2" stored as the number 2
                   /\ store.rows[i][c] = to_numeric(run.before.rows[i][c])

\* C4: no run fails while the store already holds the run's updated counters
\* and no document of the run's generation number exists.
C4_StoreAndDocumentTogether ==
    ~ /\ RunFailed
      /\ Sampled # {}
      /\ \A i \in Sampled :
            /\ store.rows[i]["Exam Number"] = Num(run.new_exam_number)
            /\ store.rows[i]["Occurrence"] = Num(OccurrenceBefore(i) + 1)
      /\ run.new_exam_number \notin files

\* C5: every successful run's generation number is greater than the number
\* of every earlier successful run on the same store.
C5_GenerationStrictlyIncreases ==
    \A a, b \in DOMAIN history : a < b => history[a] < history[b]

----------------------------------------------------------------------------
(* The key builder on its own: create_html_content over sampled rows whose *)
(* correct-answer cell ranges over every short text.                       *)

TextChars == {"A", "B", " ", "+"}

Texts(n) == UNION {[1..k -> TextChars] : k \in 1..n}

PlainRow(correct) == Row(Num(0), NaN, correct, Str(<<"A", "+", "B">>), NaN)

\* one row with any correct-answer cell, among rows with plain ones
InitKey ==
    /\ \E len \in 1..MaxQuestions :
         \E at \in 1..len, other \in [1..len -> {NaN, Str(<<"A">>)}] :
           \E cell \in {NaN} \cup {Str(t) : t \in Texts(MaxLen)} :
             questions = [k \in 1..len |->
                            IF k = at THEN PlainRow(cell) ELSE PlainRow(other[k])]
    /\ document = NoDocument
    /\ EmptyPage(NoDocument)
    /\ store = NoRun.before
    /\ files = {}
    /\ run = NoRun
    /\ history = <<>>

Render ==
    /\ document = NoDocument
    /\ ~RenderRaises(questions)
    /\ document' = create_html_content(questions, 1)
    /\ UNCHANGED <<questions, genVars, pageVars>>

NextKey == Render

SpecKey == InitKey /\ [][NextKey]_vars

----------------------------------------------------------------------------
(* The document in the browser: rendered from a few kinds of question,     *)
(* then clicked and graded.                                                *)

GradedRows ==
    { Row(Num(0), NaN, Str(<<"B", " ", "+", " ", "A">>), Str(<<"A", " ", "+", " ", "B">>), Str(<<"x">>)),
      Row(Num(0), NaN, NaN,                              Str(<<"A", "+", "B">>), NaN),
      Row(Num(0), NaN, Str(<<"A", "+", "A">>),           Str(<<"A", "+", "B">>), Str(<<"x">>)),
      Row(Num(0), NaN, Str(<<"&">>),                     Str(<<"&", "+", "A">>), NaN) }

InitGrade ==
    /\ questions \in UNION {[1..len -> GradedRows] : len \in 1..MaxQuestions}
    /\ document = create_html_content(questions, 1)
    /\ EmptyPage(document)
    /\ store = NoRun.before
    /\ files = {}
    /\ run = NoRun
    /\ history = <<>>

NextGrade ==
    \/ \E i \in DOMAIN document.questions :
          \E j \in DOMAIN document.questions[i].options : Click(i, j)
    \/ checkAnswers

SpecGrade == InitGrade /\ [][NextGrade]_vars

----------------------------------------------------------------------------
(* Claims about the answer key and the grading.  The labels of a text are  *)
(* read off it here by position, not by split and strip.                   *)

SetMin(S) == CHOOSE m \in S : \A x \in S : m <= x

PlusAt(s) == {p \in DOMAIN s : s[p] = "+"}

\* the position of the k-th '+' of s; 0 and Len(s) + 1 stand for the two ends
Cut(s, k) ==
    IF k = 0 THEN 0
    ELSE IF k > Cardinality(PlusAt(s)) THEN Len(s) + 1
    ELSE CHOOSE p \in PlusAt(s) : Cardinality({q \in PlusAt(s) : q < p}) = k - 1

\* the k-th label of s: what lies between two cuts, without the blanks around it
Label(s, k) ==
    LET inked == {p \in (Cut(s, k - 1) + 1)..(Cut(s, k) - 1) : s[p] # " "}
    IN  IF inked = {} THEN <<>> ELSE SubSeq(s, SetMin(inked), SetMax(inked))

Labels(s) == [k \in 1..(Cardinality(PlusAt(s)) + 1) |-> Label(s, k)]

Blank(c) == c.t = "nan" \/ (c.t = "str" /\ \A p \in DOMAIN c.s : c.s[p] = " ")

Rendered == document # NoDocument

\* C9: a sampled record whose correct-answer cell is absent or blank (empty
\* or whitespace only) has no entry at its position in the answer key.
C9_BlankAnswerNotInKey ==
    Rendered =>
        \A i \in DOMAIN questions :
            Blank(questions[i][CA]) => i \notin DOMAIN document.correctAnswers

\* C10: for a sampled record with a non-blank correct-answer text, the key
\* entry at its position is the text's labels: the pieces between the '+'
\* delimiters without the whitespace around them; the question block at that
\* position carries the same number.
C10_KeyIsTrimmedLabels ==
    Rendered =>
        \A i \in DOMAIN questions :
            ~Blank(questions[i][CA]) =>
                /\ i \in DOMAIN document.correctAnswers
                /\ document.correctAnswers[i] = Labels(questions[i][CA].s)
                /\ document.questions[i].data_question = i

C10_Witness ==
    /\ Rendered
    /\ Len(questions) = 2
    /\ questions[2][CA] = Str(<<"A", " ", "+", "B">>)
    /\ document.correctAnswers[2] = << <<"A">>, <<"B">> >>

\* what the rows say, by position: the text of option j, the labels of the key
OptionText(i, j) == Label(questions[i]["Selections"].s, j)

KeyLabels(i) == Labels(questions[i][CA].s)

Keyed == {i \in DOMAIN questions : notna(questions[i][CA])}

SelectedSet(i) == {OptionText(i, j) : j \in graded.checked[i]}

KeySet(i) == Range(KeyLabels(i))

\* C6: on a trigger, a position of the key is marked correct (and scores)
\* iff the set of selected values equals the set of the key's labels,
\* missing iff nothing is selected, incorrect otherwise; one marking each.
C6_CorrectIffSetsEqual ==
    graded.triggered =>
        /\ \A i \in Keyed :
            classList[i] \cap StatusClasses =
                {IF graded.checked[i] = {} THEN "missing"
                 ELSE IF SelectedSet(i) = KeySet(i) THEN "correct"
                 ELSE "incorrect"}
        /\ scoreText.score =
              Cardinality({i \in Keyed : graded.checked[i] # {}
                                         /\ SelectedSet(i) = KeySet(i)})

SelectedCount(i, v) == Cardinality({j \in graded.checked[i] : OptionText(i, j) = v})

KeyCount(i, v) == Cardinality({k \in DOMAIN KeyLabels(i) : KeyLabels(i)[k] = v})

Matches(i) ==
    \A v \in SelectedSet(i) \cup KeySet(i) : SelectedCount(i, v) = KeyCount(i, v)

ExpectedClass(i) ==
    IF i \notin Keyed THEN {}
    ELSE IF graded.checked[i] = {} THEN {"missing"}
    ELSE IF Matches(i) THEN {"correct"}
    ELSE {"incorrect"}

ExpectedLabels(i) ==
    IF i \notin Keyed THEN {}
    ELSE {j \in DOMAIN document.questions[i].options :
            /\ replace_space(OptionText(i, j)) \in {replace_space(l) : l \in KeySet(i)}
            /\ \A h \in 1..(j - 1) : OptionText(i, h) # OptionText(i, j)}

\* C8: after any clicks and triggers, the markings and the score shown are
\* those of the selections read by the last trigger and the key alone: no
\* question carries two status markings and none is left from an earlier
\* trigger.
C8_GradingIsFunctionOfSelections ==
    graded.triggered =>
        /\ \A i \in DOMAIN questions :
            /\ Cardinality(classList[i] \cap StatusClasses) <= 1
            /\ classList[i] = ExpectedClass(i)
            /\ correctLabel[i] = ExpectedLabels(i)
        /\ scoreText =
              [score |-> Cardinality({i \in DOMAIN questions : ExpectedClass(i) = {"correct"}}),
               outOf |-> Cardinality(Keyed)]

C8_Witness ==
    /\ graded.regraded
    /\ Len(questions) = 2
    /\ classList[1] = {"correct"}
    /\ classList[2] = {"missing"}

====
